---- MODULE Spec2Model ----
(***************************************************************************)
(* A model of redux-rs: the Store (src/src/store.rs), the Middleware and   *)
(* Subscription contracts (src/src/middleware.rs, src/src/subscription.rs) *)
(* and the combine_reducers! macro (src/src/reducer.rs).                   *)
(*                                                                         *)
(* Store<State, Action> is generic.  Three instantiations are explored:    *)
(*   - the counter store of the doc examples (State = i8,                  *)
(*     Action = Increment | Decrement),                                    *)
(*   - the todo store of examples/todos.rs (State = list of names,         *)
(*     Action = Insert(name)), and                                         *)
(*   - the store of Store::dispatch's doc example, whose reducer returns 0  *)
(*     whatever it is given (Action = DoSomething | DoSomethingElse).       *)
(* Reducers, middleware and subscriptions are supplied by the caller; the  *)
(* model draws them from the functions the repository's documentation and  *)
(* example define, plus a few more of the same signatures.                 *)
(***************************************************************************)
EXTENDS Integers, Sequences, FiniteSets, TLC

VARIABLES
    reducer,        \* Store.reducer: a fn pointer, held as the list of reducer
                    \* idents it was built from (one ident = that fn itself)
    state,          \* Store.state
    middleware,     \* Store.middleware: Vec<Box<dyn Middleware>>
    subscriptions,  \* Store.subscriptions: Vec<Box<dyn Subscription>>
    pc,             \* the Store method the caller's thread is in ("idle": none)
    index,          \* dispatch_middleware's parameter index
    action,         \* the action owned by the running dispatch
    iter,           \* position of dispatch_subscriptions' iterator
    trace,          \* the public call last made and every callback it invoked
    seen,           \* what the listeners recorded: <<listener, state it was given>>
    issued          \* one record per dispatch call, in issue order: the action
                    \* dispatched, the reducer then active, the action that
                    \* reached the reducer (None while none has) and how
                    \* many subscriptions were registered when it was issued

vars == <<reducer, state, middleware, subscriptions, pc, index, action, iter,
          trace, seen, issued>>

(***************************************************************************)
(* Bounds of the exploration.                                              *)
(***************************************************************************)
MaxDispatch == 2
MaxMiddleware == 2
MaxSubscriptions == 2
MaxCombine == 3

Names == {"Clean the bathroom", "Cook"}

(***************************************************************************)
(* Option<Action>.                                                         *)
(***************************************************************************)
None == << >>
Some(a) == <<a>>

(***************************************************************************)
(* Actions.                                                                *)
(***************************************************************************)
Increment == "Increment"
Decrement == "Decrement"
CounterAction == {Increment, Decrement}
Insert(name) == [insert |-> name]
TodoAction == {Insert(n) : n \in Names}
DoSomething == "DoSomething"
DoSomethingElse == "DoSomethingElse"
SomethingAction == {DoSomething, DoSomethingElse}

(***************************************************************************)
(* State = i8 arithmetic (release build: wrapping).                        *)
(***************************************************************************)
I8Min == -128
I8Modulus == 256
WrapI8(x) == ((x - I8Min) % I8Modulus) + I8Min

(***************************************************************************)
(* Reducers: fn(&State, &Action) -> State.                                 *)
(***************************************************************************)
counter_reducer(s, a) == IF a = Increment THEN WrapI8(s + 1) ELSE WrapI8(s - 1)
add_two_reducer(s, a) == WrapI8(s + 2)
first_reducer(s, a) == 0
todos_reducer(s, a) == Append(s, a.insert)
constant_reducer(s, a) == 0

CounterReducerIdents == {"counter_reducer", "add_two_reducer", "first_reducer"}
TodoReducerIdents == {"todos_reducer"}
ConstantReducerIdents == {"constant_reducer"}

\* Calling the fn that an ident names.
call_reducer(ident, s, a) ==
    CASE ident = "counter_reducer" -> counter_reducer(s, a)
      [] ident = "add_two_reducer" -> add_two_reducer(s, a)
      [] ident = "first_reducer" -> first_reducer(s, a)
      [] ident = "todos_reducer" -> todos_reducer(s, a)
      [] ident = "constant_reducer" -> constant_reducer(s, a)

\* A combine_reducers! that nests the wrong way round: the rest of the list is
\* applied first and the first reducer last.
RECURSIVE combine_reducers_reversed(_, _, _)
combine_reducers_reversed(idents, s, a) ==
    IF Len(idents) = 1
    THEN call_reducer(Head(idents), s, a)
    ELSE call_reducer(Head(idents), combine_reducers_reversed(Tail(idents), s, a), a)

\* The closure combine_reducers!(State, Action, idents...) expands to, applied
\* to (s, a).
RECURSIVE combine_reducers(_, _, _)
combine_reducers(idents, s, a) ==
    IF Len(idents) = 1
    THEN call_reducer(Head(idents), s, a)
    ELSE combine_reducers(Tail(idents), call_reducer(Head(idents), s, a), a)

\* Reducible::reduce: self(state, action).
reduce(r, s, a) == combine_reducers(r, s, a)

(***************************************************************************)
(* Middleware: Fn(&Store<State, Action>, Action) -> Option<Action>.  The   *)
(* store argument is a shared reference: a middleware can read it through  *)
(* Store::state and nothing else.                                          *)
(***************************************************************************)
\* A shall_not_increment_middleware with the arms of its match swapped.
shall_not_increment_swapped(store, a) ==
    IF a = Increment THEN None ELSE Some(Decrement)

shall_not_increment_middleware(store, a) ==
    IF a = Increment THEN Some(Decrement) ELSE None
pass_middleware(store, a) == Some(a)
no_duplicates_middleware(store, a) ==
    IF \E i \in 1..Len(store.state) : store.state[i] = a.insert
    THEN None
    ELSE Some(a)

CounterMiddleware == {"shall_not_increment_middleware", "pass_middleware"}
TodoMiddleware == {"no_duplicates_middleware", "pass_middleware"}
SomethingMiddleware == {"pass_middleware"}

\* Middleware::next: self(store, action).
next(m, store, a) ==
    CASE m = "shall_not_increment_middleware" -> shall_not_increment_middleware(store, a)
      [] m = "pass_middleware" -> pass_middleware(store, a)
      [] m = "no_duplicates_middleware" -> no_duplicates_middleware(store, a)

(***************************************************************************)
(* The instantiations of Store<State, Action>.  The Rust types fix,         *)
(* for the life of a store, which reducers, middleware and actions fit it.  *)
(***************************************************************************)
CounterReducers == {<<"counter_reducer">>, <<"counter_reducer", "add_two_reducer">>}
TodoReducers == {<<"todos_reducer">>, <<"todos_reducer", "todos_reducer">>}
ConstantReducers == {<<"constant_reducer">>}

IsCounterStore == Head(reducer) \in CounterReducerIdents
IsTodoStore == Head(reducer) \in TodoReducerIdents
StoreReducers ==
    IF IsCounterStore THEN CounterReducers
    ELSE IF IsTodoStore THEN TodoReducers ELSE ConstantReducers
StoreMiddleware ==
    IF IsCounterStore THEN CounterMiddleware
    ELSE IF IsTodoStore THEN TodoMiddleware ELSE SomethingMiddleware
StoreActions ==
    IF IsCounterStore THEN CounterAction
    ELSE IF IsTodoStore THEN TodoAction ELSE SomethingAction

(***************************************************************************)
(* The record of calls.  A public method starts a new trace with its own   *)
(* event; each middleware, reducer and subscription it invokes appends one. *)
(*   call   - the function called                                          *)
(*   index  - its position in Store.middleware / Store.subscriptions       *)
(*   arg    - the argument passed (besides the store)                      *)
(*   state  - Store.state when the call was made                           *)
(*   result - what it returned, as Some(v), or None                        *)
(***************************************************************************)
Event(c, i, a, s, r) == [call |-> c, index |-> i, arg |-> a, state |-> s, result |-> r]

\* &self, as handed to a middleware.
Self == [reducer |-> reducer, state |-> state, middleware |-> middleware,
         subscriptions |-> subscriptions]

(***************************************************************************)
(* Store::new(reducer, initial_state).                                     *)
(***************************************************************************)
new(r, initial_state) ==
    /\ reducer = r
    /\ state = initial_state
    /\ middleware = << >>
    /\ subscriptions = << >>
    /\ pc = "idle"
    /\ index = 0
    /\ action = None
    /\ iter = 0
    /\ trace = <<Event("new", 0, r, initial_state, None)>>
    /\ seen = << >>
    /\ issued = << >>

Init ==
    \/ \E r \in CounterReducers : new(r, 0)
    \/ \E r \in TodoReducers : new(r, << >>)
    \/ \E r \in ConstantReducers : new(r, 0)

(***************************************************************************)
(* Store::state(&self) -> &State.                                          *)
(***************************************************************************)
State ==
    /\ pc = "idle"
    /\ trace' = <<Event("state", 0, None, state, Some(state))>>
    /\ UNCHANGED <<reducer, state, middleware, subscriptions, pc, index, action,
                   iter, seen, issued>>

\* A dispatch that applies the reducer to the dispatched action on entry and
\* only then walks the middleware.
dispatch_reduces_first(a) ==
    /\ pc = "idle"
    /\ Len(issued) < MaxDispatch
    /\ trace' = <<Event("dispatch", 0, a, state, None)>>
    /\ issued' = Append(issued, [action |-> a, reducer |-> reducer, final |-> None,
                                 subscriptions |-> Len(subscriptions)])
    /\ action' = a
    /\ index' = 0
    /\ state' = IF middleware = << >> THEN state ELSE reduce(reducer, state, a)
    /\ pc' = IF middleware = << >> THEN "dispatch_reducer" ELSE "dispatch_middleware"
    /\ UNCHANGED <<reducer, middleware, subscriptions, iter, seen>>

\* A dispatch whose path for an empty middleware Vec stores the reducer's
\* result and returns without calling the subscriptions.
dispatch_fast_path_silent(a) ==
    /\ pc = "idle"
    /\ Len(issued) < MaxDispatch
    /\ index' = 0
    /\ IF middleware = << >>
       THEN /\ state' = reduce(reducer, state, a)
            /\ trace' = <<Event("dispatch", 0, a, state, None),
                          Event("reducer", 0, a, state, Some(state'))>>
            /\ issued' = Append(issued, [action |-> a, reducer |-> reducer,
                                         final |-> Some(a),
                                         subscriptions |-> Len(subscriptions)])
            /\ UNCHANGED <<pc, action>>
       ELSE /\ trace' = <<Event("dispatch", 0, a, state, None)>>
            /\ issued' = Append(issued, [action |-> a, reducer |-> reducer,
                                         final |-> None,
                                         subscriptions |-> Len(subscriptions)])
            /\ action' = a
            /\ pc' = "dispatch_middleware"
            /\ UNCHANGED state
    /\ UNCHANGED <<reducer, middleware, subscriptions, iter, seen>>

(***************************************************************************)
(* Store::dispatch(&mut self, action).                                     *)
(***************************************************************************)
dispatch(a) ==
    /\ pc = "idle"
    /\ Len(issued) < MaxDispatch
    /\ trace' = <<Event("dispatch", 0, a, state, None)>>
    /\ issued' = Append(issued, [action |-> a, reducer |-> reducer, final |-> None,
                                 subscriptions |-> Len(subscriptions)])
    /\ action' = a
    /\ index' = 0
    /\ pc' = IF middleware = << >> THEN "dispatch_reducer" ELSE "dispatch_middleware"
    /\ UNCHANGED <<reducer, state, middleware, subscriptions, iter, seen>>

\* The call returns to dispatch's caller; the action is dropped.
Return ==
    /\ pc' = "idle"
    /\ index' = 0
    /\ action' = None
    /\ iter' = 0

\* A dispatch_middleware that goes on to the next middleware whatever the
\* current one returned.
dispatch_middleware_ignores_veto ==
    /\ pc = "dispatch_middleware"
    /\ IF index = Len(middleware)
       THEN /\ pc' = "dispatch_reducer"
            /\ UNCHANGED <<index, action, iter, trace>>
       ELSE LET result == next(middleware[index + 1], Self, action)
            IN  /\ trace' = Append(trace, Event("middleware", index, action, state, result))
                /\ action' = IF result # None THEN result[1] ELSE action
                /\ index' = index + 1
                /\ UNCHANGED <<pc, iter>>
    /\ UNCHANGED <<reducer, state, middleware, subscriptions, seen, issued>>

\* A dispatch_middleware that recurses with the action it was given instead of
\* the one the middleware returned.
dispatch_middleware_keeps_action ==
    /\ pc = "dispatch_middleware"
    /\ IF index = Len(middleware)
       THEN /\ pc' = "dispatch_reducer"
            /\ UNCHANGED <<index, action, iter, trace>>
       ELSE LET result == next(middleware[index + 1], Self, action)
            IN  /\ trace' = Append(trace, Event("middleware", index, action, state, result))
                /\ IF result # None
                   THEN /\ index' = index + 1
                        /\ UNCHANGED <<pc, iter, action>>
                   ELSE Return
    /\ UNCHANGED <<reducer, state, middleware, subscriptions, seen, issued>>

\* A dispatch_middleware that walks the middleware from the last to the first.
dispatch_middleware_reversed ==
    /\ pc = "dispatch_middleware"
    /\ IF index = Len(middleware)
       THEN /\ pc' = "dispatch_reducer"
            /\ UNCHANGED <<index, action, iter, trace>>
       ELSE LET result == next(middleware[Len(middleware) - index], Self, action)
            IN  /\ trace' = Append(trace, Event("middleware", index, action, state, result))
                /\ IF result # None
                   THEN /\ action' = result[1]
                        /\ index' = index + 1
                        /\ UNCHANGED <<pc, iter>>
                   ELSE Return
    /\ UNCHANGED <<reducer, state, middleware, subscriptions, seen, issued>>

\* A dispatch_middleware that, on None, skips the remaining middleware but
\* still runs the reducer.
dispatch_middleware_reduces_after_veto ==
    /\ pc = "dispatch_middleware"
    /\ IF index = Len(middleware)
       THEN /\ pc' = "dispatch_reducer"
            /\ UNCHANGED <<index, action, iter, trace>>
       ELSE LET result == next(middleware[index + 1], Self, action)
            IN  /\ trace' = Append(trace, Event("middleware", index, action, state, result))
                /\ IF result # None
                   THEN /\ action' = result[1]
                        /\ index' = index + 1
                        /\ UNCHANGED <<pc, iter>>
                   ELSE /\ pc' = "dispatch_reducer"
                        /\ UNCHANGED <<index, action, iter>>
    /\ UNCHANGED <<reducer, state, middleware, subscriptions, seen, issued>>

\* A dispatch_middleware that recurses with index instead of index + 1.
dispatch_middleware_same_index ==
    /\ pc = "dispatch_middleware"
    /\ IF index = Len(middleware)
       THEN /\ pc' = "dispatch_reducer"
            /\ UNCHANGED <<index, action, iter, trace>>
       ELSE LET result == next(middleware[index + 1], Self, action)
            IN  /\ trace' = Append(trace, Event("middleware", index, action, state, result))
                /\ IF result # None
                   THEN /\ action' = result[1]
                        /\ UNCHANGED <<pc, iter, index>>
                   ELSE Return
    /\ UNCHANGED <<reducer, state, middleware, subscriptions, seen, issued>>

(***************************************************************************)
(* Store::dispatch_middleware(&mut self, index, action).                   *)
(***************************************************************************)
dispatch_middleware ==
    /\ pc = "dispatch_middleware"
    /\ IF index = Len(middleware)
       THEN /\ pc' = "dispatch_reducer"
            /\ UNCHANGED <<index, action, iter, trace>>
       ELSE LET result == next(middleware[index + 1], Self, action)
            IN  /\ trace' = Append(trace, Event("middleware", index, action, state, result))
                /\ IF result # None
                   THEN /\ action' = result[1]
                        /\ index' = index + 1
                        /\ UNCHANGED <<pc, iter>>
                   ELSE Return
    /\ UNCHANGED <<reducer, state, middleware, subscriptions, seen, issued>>

\* A dispatch_reducer that calls the reducer and drops what it returns.
dispatch_reducer_discards ==
    /\ pc = "dispatch_reducer"
    /\ trace' = Append(trace, Event("reducer", 0, action, state,
                                    Some(reduce(reducer, state, action))))
    /\ pc' = "dispatch_subscriptions"
    /\ iter' = 0
    /\ issued' = [issued EXCEPT ![Len(issued)].final = Some(action)]
    /\ UNCHANGED <<reducer, state, middleware, subscriptions, index, action, seen>>

\* A dispatch_reducer that replaces the state and returns without running the
\* subscriptions.
dispatch_reducer_silent ==
    /\ pc = "dispatch_reducer"
    /\ state' = reduce(reducer, state, action)
    /\ trace' = Append(trace, Event("reducer", 0, action, state, Some(state')))
    /\ Return
    /\ issued' = [issued EXCEPT ![Len(issued)].final = Some(action)]
    /\ UNCHANGED <<reducer, middleware, subscriptions, seen>>

\* A dispatch_reducer that goes on to the subscriptions only if the reducer
\* returned a state different from the one it was given.
dispatch_reducer_notifies_on_change ==
    /\ pc = "dispatch_reducer"
    /\ state' = reduce(reducer, state, action)
    /\ trace' = Append(trace, Event("reducer", 0, action, state, Some(state')))
    /\ IF state' = state
       THEN Return
       ELSE /\ pc' = "dispatch_subscriptions"
            /\ iter' = 0
            /\ UNCHANGED <<index, action>>
    /\ issued' = [issued EXCEPT ![Len(issued)].final = Some(action)]
    /\ UNCHANGED <<reducer, middleware, subscriptions, seen>>

(***************************************************************************)
(* Store::dispatch_reducer(&mut self, action).                             *)
(***************************************************************************)
dispatch_reducer ==
    /\ pc = "dispatch_reducer"
    /\ state' = reduce(reducer, state, action)
    /\ trace' = Append(trace, Event("reducer", 0, action, state, Some(state')))
    /\ pc' = "dispatch_subscriptions"
    /\ iter' = 0
    /\ issued' = [issued EXCEPT ![Len(issued)].final = Some(action)]
    /\ UNCHANGED <<reducer, middleware, subscriptions, index, action, seen>>

\* A dispatch_subscriptions that iterates the subscriptions in reverse.
dispatch_subscriptions_reversed ==
    /\ pc = "dispatch_subscriptions"
    /\ IF iter < Len(subscriptions)
       THEN /\ seen' = Append(seen, <<subscriptions[Len(subscriptions) - iter], state>>)
            /\ trace' = Append(trace, Event("subscription", Len(subscriptions) - 1 - iter,
                                            state, state, None))
            /\ iter' = iter + 1
            /\ UNCHANGED <<pc, index, action>>
       ELSE /\ Return
            /\ UNCHANGED <<seen, trace>>
    /\ UNCHANGED <<reducer, state, middleware, subscriptions, issued>>

\* A dispatch_subscriptions that leaves out the subscription registered last.
dispatch_subscriptions_skips_newest ==
    /\ pc = "dispatch_subscriptions"
    /\ IF iter + 1 < Len(subscriptions)
       THEN /\ seen' = Append(seen, <<subscriptions[iter + 1], state>>)
            /\ trace' = Append(trace, Event("subscription", iter, state, state, None))
            /\ iter' = iter + 1
            /\ UNCHANGED <<pc, index, action>>
       ELSE /\ Return
            /\ UNCHANGED <<seen, trace>>
    /\ UNCHANGED <<reducer, state, middleware, subscriptions, issued>>

(***************************************************************************)
(* Store::dispatch_subscriptions(&self): one step per subscription called, *)
(* and one when the iterator is exhausted.  The caller's listeners record   *)
(* the state they are given; the k-th closure the caller subscribes is      *)
(* listener k.                                                             *)
(***************************************************************************)
dispatch_subscriptions ==
    /\ pc = "dispatch_subscriptions"
    /\ IF iter < Len(subscriptions)
       THEN /\ seen' = Append(seen, <<subscriptions[iter + 1], state>>)
            /\ trace' = Append(trace, Event("subscription", iter, state, state, None))
            /\ iter' = iter + 1
            /\ UNCHANGED <<pc, index, action>>
       ELSE /\ Return
            /\ UNCHANGED <<seen, trace>>
    /\ UNCHANGED <<reducer, state, middleware, subscriptions, issued>>

\* A subscribe that also calls the new callback at once with the current state.
subscribe_notifies(callback) ==
    /\ pc = "idle"
    /\ Len(subscriptions) < MaxSubscriptions
    /\ subscriptions' = Append(subscriptions, callback)
    /\ trace' = <<Event("subscribe", 0, callback, state, None),
                  Event("subscription", Len(subscriptions), state, state, None)>>
    /\ seen' = Append(seen, <<callback, state>>)
    /\ UNCHANGED <<reducer, state, middleware, pc, index, action, iter, issued>>

(***************************************************************************)
(* Store::subscribe(&mut self, callback).                                  *)
(***************************************************************************)
subscribe(callback) ==
    /\ pc = "idle"
    /\ Len(subscriptions) < MaxSubscriptions
    /\ subscriptions' = Append(subscriptions, callback)
    /\ trace' = <<Event("subscribe", 0, callback, state, None)>>
    /\ UNCHANGED <<reducer, state, middleware, pc, index, action, iter, seen, issued>>

\* An add_middleware that inserts at the front of the Vec.
add_middleware_prepends(m) ==
    /\ pc = "idle"
    /\ Len(middleware) < MaxMiddleware
    /\ middleware' = <<m>> \o middleware
    /\ trace' = <<Event("add_middleware", 0, m, state, None)>>
    /\ UNCHANGED <<reducer, state, subscriptions, pc, index, action, iter, seen, issued>>

(***************************************************************************)
(* Store::add_middleware(&mut self, middleware).                           *)
(***************************************************************************)
add_middleware(m) ==
    /\ pc = "idle"
    /\ Len(middleware) < MaxMiddleware
    /\ middleware' = Append(middleware, m)
    /\ trace' = <<Event("add_middleware", 0, m, state, None)>>
    /\ UNCHANGED <<reducer, state, subscriptions, pc, index, action, iter, seen, issued>>

\* A replace_reducer that keeps the reducer the store already has.
replace_reducer_ignored(r) ==
    /\ pc = "idle"
    /\ trace' = <<Event("replace_reducer", 0, r, state, None)>>
    /\ UNCHANGED <<reducer, state, middleware, subscriptions, pc, index, action, iter,
                   seen, issued>>

(***************************************************************************)
(* Store::replace_reducer(&mut self, reducer).                             *)
(***************************************************************************)
replace_reducer(r) ==
    /\ pc = "idle"
    /\ reducer' = r
    /\ trace' = <<Event("replace_reducer", 0, r, state, None)>>
    /\ UNCHANGED <<state, middleware, subscriptions, pc, index, action, iter, seen, issued>>

Next ==
    \/ State
    \/ \E a \in StoreActions : dispatch(a)
    \/ dispatch_middleware
    \/ dispatch_reducer
    \/ dispatch_subscriptions
    \/ subscribe(Len(subscriptions) + 1)
    \/ \E m \in StoreMiddleware : add_middleware(m)
    \/ \E r \in StoreReducers : replace_reducer(r)

Spec == Init /\ [][Next]_vars

(***************************************************************************)
(* combine_reducers! on its own: the inputs are drawn in the initial state  *)
(* and the combined reducer is called once.                                *)
(***************************************************************************)
CombineStates == {-1, 0, 1}

RECURSIVE IdentLists(_)
IdentLists(n) ==
    IF n = 0
    THEN {<< >>}
    ELSE IdentLists(n - 1) \cup
         {Append(l, r) : l \in {x \in IdentLists(n - 1) : Len(x) = n - 1},
                         r \in CounterReducerIdents}

InitCombine ==
    /\ reducer \in IdentLists(MaxCombine) \ {<< >>}
    /\ state \in CombineStates
    /\ action \in CounterAction
    /\ middleware = << >>
    /\ subscriptions = << >>
    /\ pc = "combine"
    /\ index = 0
    /\ iter = 0
    /\ trace = << >>
    /\ seen = << >>
    /\ issued = << >>

\* reducer.reduce(&state, &action) on the closure the macro built.
call_combined ==
    /\ pc = "combine"
    /\ trace' = <<Event("reduce", 0, action, state, Some(reduce(reducer, state, action)))>>
    /\ pc' = "combined"
    /\ UNCHANGED <<reducer, state, middleware, subscriptions, index, action, iter,
                   seen, issued>>

NextCombine == call_combined

SpecCombine == InitCombine /\ [][NextCombine]_vars

(***************************************************************************)
(* Reading the trace.                                                      *)
(***************************************************************************)
\* The running or last public call was a dispatch.
InDispatch == trace # << >> /\ trace[1].call = "dispatch"
\* A dispatch has returned and nothing was called since.
DispatchDone == InDispatch /\ pc = "idle"
\* Positions of the trace at which function c was called.
Calls(c) == {k \in 1..Len(trace) : trace[k].call = c}
\* Some middleware returned None.
Vetoed == \E k \in Calls("middleware") : trace[k].result = None
\* The state the running or last dispatch started from, and its action.
StateBefore == trace[1].state
Dispatched == trace[1].arg

(***************************************************************************)
(* C1.  With no middleware registered, dispatch(a) leaves state() equal to  *)
(* reducer(s, a): s the state before the call, reducer the active reducer.  *)
(* Also, state() returns the stored state.                                 *)
(***************************************************************************)
C1_NoMiddlewareDispatchReduces ==
    /\ (DispatchDone /\ middleware = << >>) =>
           state = reduce(reducer, StateBefore, Dispatched)
    /\ (trace # << >> /\ trace[1].call = "state") => trace[1].result = Some(state)

C1_Witness ==
    /\ DispatchDone
    /\ middleware = << >>
    /\ state # StateBefore
    /\ Len(reducer) = 2

(***************************************************************************)
(* C2.  If any middleware returns None during dispatch(a), the state after  *)
(* the dispatch equals the state before it, the reducer is never invoked    *)
(* and no subscription is called for that dispatch.                        *)
(***************************************************************************)
C2_VetoLeavesStateAndCallsNothing ==
    (DispatchDone /\ Vetoed) =>
        /\ state = StateBefore
        /\ Calls("reducer") = {}
        /\ Calls("subscription") = {}
        /\ issued[Len(issued)].final = None

C2_Witness ==
    /\ DispatchDone
    /\ Vetoed
    /\ Len(subscriptions) = 2
    /\ Len(middleware) = 2
    /\ Len(trace) = 3

(***************************************************************************)
(* C3.  The middleware at index 0 receives the dispatched action; the      *)
(* middleware at index i+1 receives what the middleware at index i          *)
(* returned; the reducer applies what the last middleware returned.         *)
(***************************************************************************)
C3_TransformedActionSupersedes ==
    InDispatch =>
        \A k \in 2..Len(trace) :
            /\ (trace[k].call = "middleware" /\ trace[k].index = 0) =>
                   trace[k].arg = Dispatched
            /\ (trace[k].call = "middleware" /\ trace[k].index > 0) =>
                   /\ trace[k - 1].call = "middleware"
                   /\ trace[k - 1].index = trace[k].index - 1
                   /\ trace[k - 1].result = Some(trace[k].arg)
            /\ (trace[k].call = "reducer" /\ middleware # << >>) =>
                   /\ trace[k - 1].call = "middleware"
                   /\ trace[k - 1].index = Len(middleware) - 1
                   /\ trace[k - 1].result = Some(trace[k].arg)

C3_Witness ==
    /\ DispatchDone
    /\ \E k \in Calls("middleware") : trace[k].index = 1 /\ trace[k].arg # Dispatched
    /\ \E k \in Calls("reducer") : trace[k].arg # Dispatched

(***************************************************************************)
(* C4.  For a non-vetoed dispatch, each registered subscription is called   *)
(* exactly once, in registration order, after the state was replaced, and   *)
(* each is given the post-reducer state, the one state() then returns.      *)
(***************************************************************************)
C4_SubscriptionsOncePerDispatchInOrder ==
    (DispatchDone /\ ~Vetoed) =>
        LET n == Len(subscriptions)
            r == Len(trace) - n
        IN  /\ r >= 2
            /\ trace[r].call = "reducer"
            /\ trace[r].result = Some(state)
            /\ Calls("subscription") = (r + 1)..Len(trace)
            /\ \A j \in 1..n : trace[r + j] = Event("subscription", j - 1, state, state, None)
            /\ Len(seen) >= n
            /\ \A j \in 1..n : seen[Len(seen) - n + j] = <<subscriptions[j], state>>

C4_Witness ==
    /\ DispatchDone
    /\ ~Vetoed
    /\ Len(subscriptions) = 2
    /\ Len(issued) = 2
    /\ IsCounterStore
    /\ seen = <<<<1, 1>>, <<1, 2>>, <<2, 2>>>>

(***************************************************************************)
(* C5.  replace_reducer(r2) makes r2 the active reducer and leaves the      *)
(* state computed so far alone; a dispatch computes its state with the      *)
(* reducer that is active when it is issued.                               *)
(***************************************************************************)
C5_ReplacedReducerUsedFromThenOn ==
    /\ (trace # << >> /\ trace[1].call = "replace_reducer") =>
           /\ reducer = trace[1].arg
           /\ state = trace[1].state
    /\ InDispatch =>
           /\ issued[Len(issued)].reducer = reducer
           /\ \A k \in Calls("reducer") :
                  trace[k].result =
                      Some(reduce(issued[Len(issued)].reducer, trace[k].state, trace[k].arg))
    /\ (DispatchDone /\ ~Vetoed) =>
           \E k \in Calls("reducer") : state = reduce(reducer, StateBefore, trace[k].arg)

C5_Witness ==
    /\ DispatchDone
    /\ ~Vetoed
    /\ Len(issued) = 2
    /\ issued[1].final # None
    /\ issued[1].reducer # issued[2].reducer
    /\ \E k \in Calls("reducer") :
           state # reduce(issued[1].reducer, StateBefore, trace[k].arg)

(***************************************************************************)
(* C6.  The reducer combine_reducers! builds from r1, r2, ..., rn returns   *)
(* rn(...r2(r1(s, a), a)..., a): each reducer applied once, left to right,  *)
(* all with the same action, each on the state the previous one returned.   *)
(***************************************************************************)
\* r_n(... r_1(s, a) ..., a), by recursion on n.
RECURSIVE Threaded(_, _, _, _)
Threaded(rs, n, s, a) ==
    IF n = 0 THEN s ELSE call_reducer(rs[n], Threaded(rs, n - 1, s, a), a)

C6_CombineThreadsLeftToRight ==
    pc = "combined" =>
        /\ trace[1].result = Some(Threaded(reducer, Len(reducer), state, action))
        /\ Len(reducer) = 1 =>
               trace[1].result = Some(call_reducer(reducer[1], state, action))
        /\ Len(reducer) = 3 =>
               trace[1].result =
                   Some(call_reducer(reducer[3],
                            call_reducer(reducer[2],
                                call_reducer(reducer[1], state, action), action), action))

C6_Witness ==
    /\ pc = "combined"
    /\ reducer = <<"counter_reducer", "first_reducer", "add_two_reducer">>
    /\ state = 1
    /\ trace[1].result = Some(2)

(***************************************************************************)
(* C7.  Within one dispatch the middleware are invoked in registration      *)
(* order starting at index 0, each at most once; the one at index i only    *)
(* if every one below i returned Some; none after one returned None.        *)
(***************************************************************************)
C7_MiddlewareInRegistrationOrder ==
    InDispatch =>
        /\ \A k \in Calls("middleware") :
               /\ trace[k].index = k - 2
               /\ trace[k].index < Len(middleware)
               /\ trace[k].result =
                      next(middleware[trace[k].index + 1], [state |-> trace[k].state],
                           trace[k].arg)
               /\ \A j \in 2..(k - 1) :
                      trace[j].call = "middleware" /\ trace[j].result # None
               /\ trace[k].result = None => (k = Len(trace) /\ pc = "idle")
        /\ \A k \in Calls("reducer") : k = Len(middleware) + 2

C7_Witness ==
    /\ DispatchDone
    /\ Len(middleware) = 2
    /\ Calls("middleware") = {2}
    /\ trace[2].result = None

(***************************************************************************)
(* C8.  Dispatch calls take effect in the order issued: the state is the    *)
(* left fold, from the initial state, of the active reducer over the final  *)
(* actions of the non-vetoed dispatches in issue order; the reducer is      *)
(* invoked once per non-vetoed dispatch and never for a vetoed one.         *)
(***************************************************************************)
InitialState == IF IsTodoStore THEN << >> ELSE 0

RECURSIVE FoldIssued(_)
FoldIssued(k) ==
    IF k = 0
    THEN InitialState
    ELSE IF issued[k].final = None
         THEN FoldIssued(k - 1)
         ELSE reduce(issued[k].reducer, FoldIssued(k - 1), issued[k].final[1])

C8_StateIsFoldOfAppliedActions ==
    /\ state = FoldIssued(Len(issued))
    /\ InDispatch => issued[Len(issued)].action = Dispatched
    /\ DispatchDone =>
           /\ Cardinality(Calls("reducer")) = IF Vetoed THEN 0 ELSE 1
           /\ (issued[Len(issued)].final = None) <=> Vetoed
           /\ \A k \in Calls("reducer") :
                  issued[Len(issued)].final = Some(trace[k].arg)

C8_Witness ==
    /\ DispatchDone
    /\ ~IsCounterStore
    /\ reducer = <<"todos_reducer">>
    /\ Len(issued) = 2
    /\ issued[1].action = Insert("Clean the bathroom")
    /\ issued[2].action = Insert("Cook")
    /\ issued[1].reducer = reducer
    /\ state = <<"Clean the bathroom", "Cook">>

(***************************************************************************)
(* C9.  The stored state is replaced only by the reducer step of a          *)
(* dispatch: new leaves it at initial_state; state(), subscribe,            *)
(* add_middleware, replace_reducer, every middleware invocation and every   *)
(* subscription invocation leave it unchanged; subscribe, add_middleware    *)
(* and replace_reducer call no subscription and no middleware.              *)
(***************************************************************************)
Registrations == {"state", "subscribe", "add_middleware", "replace_reducer"}

C9_StateReplacedOnlyByReducerStep ==
    /\ [](trace[1].call = "new" => (state = trace[1].state /\ Len(trace) = 1 /\ seen = << >>))
    /\ [][state' # state =>
              /\ trace'[1].call = "dispatch"
              /\ trace' = Append(trace, trace'[Len(trace')])
              /\ trace'[Len(trace')].call = "reducer"]_vars
    /\ [][(trace' # trace /\ trace'[1].call \in Registrations) =>
              /\ state' = state
              /\ seen' = seen
              /\ Len(trace') = 1]_vars

C9_Witness ==
    /\ trace[1].call = "subscribe"
    /\ Len(subscriptions) = 2
    /\ middleware # << >>
    /\ state # InitialState
    /\ seen # << >>

ShallNotIncrementStore ==
    /\ reducer = <<"counter_reducer">>
    /\ middleware = <<"shall_not_increment_middleware">>

C11_ShallNotIncrementNeverIncrements ==
    /\ [](ShallNotIncrementStore /\ DispatchDone =>
            /\ Dispatched = Increment =>
                   /\ state = StateBefore - 1
                   /\ {trace[k].index : k \in Calls("subscription")} =
                          0..(Len(subscriptions) - 1)
                   /\ \A k \in Calls("subscription") : trace[k].arg = StateBefore - 1
            /\ Dispatched = Decrement =>
                   /\ state = StateBefore
                   /\ Calls("subscription") = {}
                   /\ Calls("reducer") = {})
    /\ [][ShallNotIncrementStore => state' <= state]_vars

C11_Witness ==
    /\ ShallNotIncrementStore
    /\ DispatchDone
    /\ Len(issued) = 2
    /\ issued[1].action = Increment
    /\ issued[1].final = Some(Decrement)
    /\ issued[2].action = Decrement
    /\ issued[2].final = None
    /\ state = -1
    /\ seen = <<<<1, -1>>>>

(***************************************************************************)
(* C12.  The middleware sequence and the subscription sequence are          *)
(* append-only.  Both start empty; a call of add_middleware appends its     *)
(* argument to the middleware and leaves the subscriptions alone; a call of *)
(* subscribe appends its argument to the subscriptions and leaves the       *)
(* middleware alone; nothing else changes either sequence.                  *)
(***************************************************************************)
RegistrationStep ==
    /\ middleware' # middleware =>
           /\ trace'[1].call = "add_middleware"
           /\ Len(trace') = 1
           /\ middleware' = Append(middleware, trace'[1].arg)
    /\ subscriptions' # subscriptions =>
           /\ trace'[1].call = "subscribe"
           /\ Len(trace') = 1
           /\ subscriptions' = Append(subscriptions, trace'[1].arg)
    /\ (trace' # trace /\ trace'[1].call = "add_middleware") =>
           /\ middleware' = Append(middleware, trace'[1].arg)
           /\ subscriptions' = subscriptions
    /\ (trace' # trace /\ trace'[1].call = "subscribe") =>
           /\ subscriptions' = Append(subscriptions, trace'[1].arg)
           /\ middleware' = middleware
    /\ (trace' # trace /\ trace'[1].call \notin {"add_middleware", "subscribe"}) =>
           /\ middleware' = middleware
           /\ subscriptions' = subscriptions

C12_RegistrationIsAppendOnly ==
    /\ [](trace[1].call = "new" => (middleware = << >> /\ subscriptions = << >>))
    /\ [][RegistrationStep]_vars

C12_Witness ==
    /\ DispatchDone
    /\ Vetoed
    /\ Len(issued) = 2
    /\ issued[1].final # None
    /\ middleware = <<"pass_middleware", "shall_not_increment_middleware">>
    /\ subscriptions = <<1, 2>>

(***************************************************************************)
(* C13.  Every middleware invoked during a dispatch, whatever its index,    *)
(* observes the state held before that dispatch: from the start of dispatch *)
(* until the reducer step the stored state, the active reducer, the         *)
(* middleware and the subscriptions are unchanged.                          *)
(***************************************************************************)
BeforeReducerStep == pc \in {"dispatch_middleware", "dispatch_reducer"}

StoreFrozenBeforeReducer ==
    /\ (pc = "idle" /\ pc' # "idle") => UNCHANGED <<state, reducer, middleware, subscriptions>>
    /\ pc = "dispatch_middleware" => UNCHANGED <<state, reducer, middleware, subscriptions>>
    /\ pc = "dispatch_reducer" => UNCHANGED <<reducer, middleware, subscriptions>>

C13_MiddlewareObservePreDispatchState ==
    /\ [](InDispatch =>
            /\ \A k \in Calls("middleware") :
                   /\ trace[k].state = StateBefore
                   /\ trace[k].result =
                          next(middleware[trace[k].index + 1], [state |-> StateBefore],
                               trace[k].arg)
            /\ BeforeReducerStep =>
                   /\ state = StateBefore
                   /\ reducer = issued[Len(issued)].reducer
                   /\ Len(subscriptions) = issued[Len(issued)].subscriptions)
    /\ [][StoreFrozenBeforeReducer]_vars

C13_Witness ==
    /\ DispatchDone
    /\ IsTodoStore
    /\ middleware = <<"pass_middleware", "no_duplicates_middleware">>
    /\ StateBefore # << >>
    /\ Calls("middleware") = {2, 3}
    /\ trace[3].result = None

(***************************************************************************)
(* C14.  Every dispatch terminates.  A call of dispatch runs on its         *)
(* caller's thread until it returns, so each step of a running dispatch is  *)
(* taken (weak fairness on the steps of the running call).  A dispatch      *)
(* makes at most Len(middleware) middleware invocations and then either     *)
(* ends vetoed, with nothing else called, or applies the reducer once and   *)
(* calls each subscription once before it returns.                         *)
(***************************************************************************)
\* The next step of the call of dispatch that is running.
Running == dispatch_middleware \/ dispatch_reducer \/ dispatch_subscriptions

SpecFair == Spec /\ WF_vars(Running)

EndedVetoed ==
    /\ Vetoed
    /\ Calls("reducer") = {}
    /\ Calls("subscription") = {}

EndedApplied ==
    /\ ~Vetoed
    /\ Cardinality(Calls("middleware")) = Len(middleware)
    /\ Cardinality(Calls("reducer")) = 1
    /\ Cardinality(Calls("subscription")) = Len(subscriptions)
    /\ \A j \in 1..Len(subscriptions) :
           \E k \in Calls("subscription") : trace[k].index = j - 1

C14_EveryDispatchTerminates ==
    /\ [](InDispatch =>
            /\ Cardinality(Calls("middleware")) <= Len(middleware)
            /\ Cardinality(Calls("reducer")) <= 1
            /\ Cardinality(Calls("subscription")) <= Len(subscriptions)
            /\ pc = "idle" => (EndedVetoed \/ EndedApplied))
    /\ (pc # "idle") ~> (pc = "idle")

C14_Witness ==
    /\ DispatchDone
    /\ EndedApplied
    /\ Len(middleware) = 2
    /\ Len(subscriptions) = 2
    /\ Len(trace) = 6

(***************************************************************************)
(* C15.  Registration takes effect only for later dispatches.  A           *)
(* subscription is called for no dispatch issued before its subscribe and   *)
(* once for each non-vetoed dispatch issued after it: its number of calls   *)
(* is the number of non-vetoed dispatches issued since.  subscribe and      *)
(* add_middleware invoke nothing themselves; in every later dispatch a      *)
(* middleware is consulted, at its own position after all registered        *)
(* before it, whenever every one before it returned Some.                   *)
(***************************************************************************)
\* Calls listener l has received so far.
CallsOf(l) == {k \in 1..Len(seen) : seen[k][1] = l}
\* The non-vetoed dispatches issued when at least j subscriptions existed.
AppliedSince(j) ==
    {d \in 1..Len(issued) : issued[d].final # None /\ issued[d].subscriptions >= j}
\* The i-th middleware was consulted by the running or last dispatch.
Consulted(i) ==
    /\ Len(trace) > i
    /\ trace[i + 1].call = "middleware"
    /\ trace[i + 1].index = i - 1

TakesEffectLater ==
    /\ pc = "idle" =>
           \A j \in 1..Len(subscriptions) :
               Cardinality(CallsOf(subscriptions[j])) = Cardinality(AppliedSince(j))
    /\ InDispatch =>
           /\ issued[Len(issued)].subscriptions = Len(subscriptions)
           /\ \A k \in Calls("subscription") :
                  trace[k].index < issued[Len(issued)].subscriptions
           /\ \A k \in Calls("middleware") : Consulted(trace[k].index + 1)
    /\ DispatchDone =>
           \A i \in 1..Len(middleware) :
               (\A j \in 1..(i - 1) : Consulted(j) /\ trace[j + 1].result # None)
                   => Consulted(i)

RegistersOnly ==
    (Len(subscriptions') > Len(subscriptions) \/ Len(middleware') > Len(middleware)) =>
        /\ Len(trace') = 1
        /\ seen' = seen
        /\ issued' = issued
        /\ state' = state
        /\ pc' = "idle"

C15_RegistrationTakesEffectLater == []TakesEffectLater /\ [][RegistersOnly]_vars

C15_Witness ==
    /\ DispatchDone
    /\ IsCounterStore
    /\ Len(issued) = 2
    /\ issued[1].action = Increment
    /\ issued[1].final = Some(Increment)
    /\ issued[1].subscriptions = 1
    /\ issued[2].action = Increment
    /\ issued[2].final = Some(Decrement)
    /\ issued[2].subscriptions = 2
    /\ middleware = <<"shall_not_increment_middleware">>
    /\ Consulted(1)
    /\ Cardinality(CallsOf(1)) = 2
    /\ Cardinality(CallsOf(2)) = 1

(***************************************************************************)
(* C16.  Notification follows the reducer, not a change of the state: a     *)
(* non-vetoed dispatch calls every subscription exactly once with the       *)
(* state the reducer returned, also when that state equals the state        *)
(* before the dispatch; a subscription is called at no other moment, so     *)
(* never by new, subscribe, add_middleware or replace_reducer.              *)
(***************************************************************************)
\* Positions of the trace at which the subscription at index i was called.
SubscriptionCalls(i) == {k \in Calls("subscription") : trace[k].index = i}

NotifiedAfterReducer ==
    /\ (\A d \in 1..Len(issued) : issued[d].final = None) => seen = << >>
    /\ ~InDispatch => Calls("subscription") = {}
    /\ InDispatch =>
           \A k \in Calls("subscription") :
               /\ \E r \in Calls("reducer") : r < k /\ trace[r].result = Some(trace[k].arg)
               /\ trace[k].arg = state
    /\ (DispatchDone /\ ~Vetoed) =>
           \A i \in 0..(Len(subscriptions) - 1) : Cardinality(SubscriptionCalls(i)) = 1

NotifiedOnlyByDispatch ==
    seen' # seen =>
        /\ pc = "dispatch_subscriptions"
        /\ Calls("reducer") # {}
        /\ iter < Len(subscriptions)
        /\ seen' = Append(seen, <<subscriptions[iter + 1], state>>)
        /\ state' = state

C16_NotificationFollowsReducer == []NotifiedAfterReducer /\ [][NotifiedOnlyByDispatch]_vars

C16_Witness ==
    /\ DispatchDone
    /\ ~Vetoed
    /\ state = StateBefore
    /\ Len(subscriptions) = 2
    /\ Len(seen) = 2
    /\ seen[1] = <<subscriptions[1], state>>
    /\ seen[2] = <<subscriptions[2], state>>

(***************************************************************************)
(* C17.  The path for an empty middleware Vec and the walk through          *)
(* middleware that all return Some of the action they were given agree:     *)
(* with no middleware, or with any number of such middleware, the states    *)
(* the store goes through and the subscription calls made are the same      *)
(* function of the initial state, the reducers, the subscriptions and the   *)
(* dispatched actions, in which the middleware do not occur.                *)
(***************************************************************************)
AllIdentity == \A i \in 1..Len(middleware) : middleware[i] = "pass_middleware"

\* The state after the first k dispatches of a store without middleware.
RECURSIVE FoldDispatched(_)
FoldDispatched(k) ==
    IF k = 0
    THEN InitialState
    ELSE reduce(issued[k].reducer, FoldDispatched(k - 1), issued[k].action)

\* The subscription calls of dispatch d of a store without middleware, up to
\* the n-th.
Notified(d, n) == [j \in 1..n |-> <<subscriptions[j], FoldDispatched(d)>>]

\* The subscription calls of the first k dispatches of such a store.
RECURSIVE Replay(_)
Replay(k) ==
    IF k = 0
    THEN << >>
    ELSE Replay(k - 1) \o Notified(k, issued[k].subscriptions)

C17_FastPathAgreesWithIdentityWalk ==
    AllIdentity =>
        /\ pc = "idle" =>
               /\ state = FoldDispatched(Len(issued))
               /\ seen = Replay(Len(issued))
        /\ pc \in {"dispatch_middleware", "dispatch_reducer"} =>
               /\ action = issued[Len(issued)].action
               /\ state = FoldDispatched(Len(issued) - 1)
               /\ seen = Replay(Len(issued) - 1)
        /\ pc = "dispatch_subscriptions" =>
               /\ state = FoldDispatched(Len(issued))
               /\ seen = Replay(Len(issued) - 1) \o Notified(Len(issued), iter)

C17_Witness ==
    /\ DispatchDone
    /\ middleware = <<"pass_middleware", "pass_middleware">>
    /\ Calls("middleware") = {2, 3}
    /\ Len(issued) = 2
    /\ issued[1].subscriptions = 1
    /\ issued[2].subscriptions = 2
    /\ Len(seen) = 3
    /\ state # InitialState
    /\ state = FoldDispatched(2)

====
